---- MODULE Spec2Model ----
(***************************************************************************)
(* Turn scheduling of the multi-agent programming system:                  *)
(*   scripts/xml_parsing_tools.py   the plan document parser               *)
(*   scripts/agent_chat_tools.py    the schedule builder, the turn         *)
(*                                  selector and the group chat set-up     *)
(*   main.py                        the main flow                          *)
(*   scripts/project_tools.py,                                             *)
(*   scripts/file_tools.py          the set-up and the reset of the        *)
(*                                  project directory                      *)
(*   scripts/agent_tools.py         execute_python_code and test_file      *)
(* Strings are sequences of one-character strings, so that str.lower() is  *)
(* a real conversion.  An optional value (None or a value) is a sequence   *)
(* of length 0 or 1, which is also the shape of the list of at most one    *)
(* Task that parse_project_plan returns.                                   *)
(***************************************************************************)
EXTENDS Integers, Sequences, FiniteSets, TLC

VARIABLES
    chat_result,     \* "unset" until the project-manager chat of main has returned
    planFile,        \* project_plan.xml in the project directory
    pc,              \* position of the flow
    tasks,           \* the list returned by parse_project_plan
    agent_order,     \* the schedule built by execute_agent_tasks
    ordered_agents,  \* the active agent list handed to setup_group_chat
    chatMode,        \* "none", "single" or "multi"
    messageCount,    \* len(groupchat.messages)
    selected,        \* the agent returned by the last speaker selection
    project_dir,     \* the top-level entries of the project directory
    fs_pc,           \* position of a run of main before the project-manager chat
    reset_db,        \* the --reset flag of the run
    last_plan,       \* project_plan.xml as the previous run left it
    fs_call,         \* the last call of project_tools.py: function, directory before, result
    sys_stdout,      \* sys.stdout: Console or the capture buffer of a call
    buffers,         \* what has been written to the capture buffer of each call
    workers,         \* the thread that each call of execute_python_code started
    ecall,           \* the running call of execute_python_code
    tf,              \* the running call of test_file
    exec_ret,        \* what execute_python_code returned last
    test_ret         \* what test_file returned last

fsVars == <<project_dir, fs_pc, reset_db, last_plan, fs_call>>

flowVars == <<chat_result, planFile, pc, tasks, agent_order, ordered_agents, chatMode,
              messageCount, selected>>

toolVars == <<sys_stdout, buffers, workers, ecall, tf, exec_ret, test_ret>>

vars == <<flowVars, fsVars, toolVars>>

(***************************************************************************)
(* Bounds of the model.                                                    *)
(***************************************************************************)
MaxSubtasks == 2     \* task elements under <tasks>
MaxOrderLen == 3     \* length of the schedules given to the selector alone
MaxAgents == 2       \* length of the agent lists given to the selector alone
MaxElapsed == 12     \* message counts given to the selector alone

(***************************************************************************)
(* Program constants.                                                      *)
(***************************************************************************)
num_debug_loops == 3
ExecuteMaxRounds == 99
MessagesPerTurn == 3

(***************************************************************************)
(* Text.                                                                   *)
(***************************************************************************)
LowerChar(c) ==
    CASE c = "C" -> "c"
      [] c = "D" -> "d"
      [] c = "M" -> "m"
      [] c = "P" -> "p"
      [] c = "T" -> "t"
      [] c = "U" -> "u"
      [] OTHER -> c

KeepCase(s) == s

Lower(s) == [i \in 1..Len(s) |-> LowerChar(s[i])]

S_coder == <<"c", "o", "d", "e", "r">>
S_tester == <<"t", "e", "s", "t", "e", "r">>
S_debugger == <<"d", "e", "b", "u", "g", "g", "e", "r">>
S_project_manager ==
    <<"p", "r", "o", "j", "e", "c", "t", "_", "m", "a", "n", "a", "g", "e", "r">>
S_designer == <<"d", "e", "s", "i", "g", "n", "e", "r">>
S_Tester == <<"T", "e", "s", "t", "e", "r">>
S_Up_Debugger == <<"D", "e", "b", "u", "g", "g", "e", "r">>
S_project_plan == <<"p", "r", "o", "j", "e", "c", "t", "_", "p", "l", "a", "n">>
S_plan == <<"p", "l", "a", "n">>
S_user_proxy == <<"u", "s", "e", "r", "_", "p", "r", "o", "x", "y">>
S_text == <<"x">>

(***************************************************************************)
(* The agents of data/agents.py, each identified by its name.              *)
(***************************************************************************)
user_proxy == <<"U", "s", "e", "r", "_", "P", "r", "o", "x", "y">>
project_manager ==
    <<"P", "r", "o", "j", "e", "c", "t", "_", "M", "a", "n", "a", "g", "e", "r">>
coder == <<"C", "o", "d", "e", "r">>
tester == <<"T", "e", "s", "t", "e", "r">>
debugger == <<"D", "e", "b", "u", "g", "g", "e", "r">>
NoAgent == <<>>

(***************************************************************************)
(* XML elements.  find() of a child gives Absent when there is no such     *)
(* child; an element without character data has text None (hasText FALSE). *)
(***************************************************************************)
Absent == [found |-> FALSE, hasText |-> FALSE, text |-> <<>>]
Empty == [found |-> TRUE, hasText |-> FALSE, text |-> <<>>]
Txt(s) == [found |-> TRUE, hasText |-> TRUE, text |-> s]

None == <<>>
Some(x) == <<x>>

RECURSIVE SeqsUpTo(_, _)
SeqsUpTo(S, n) ==
    IF n = 0 THEN {<<>>}
    ELSE LET shorter == SeqsUpTo(S, n - 1)
         IN  shorter \cup {Append(s, x) : s \in {t \in shorter : Len(t) = n - 1}, x \in S}

(***************************************************************************)
(* scripts/xml_parsing_tools.py                                            *)
(***************************************************************************)
\* parse_task: None when the name or the delegatedTo child is missing or has
\* no text, else the subtask {'description': name.text, 'agent': delegatedTo.text}.
parse_task_no_role_check(task_element) ==
    IF \/ ~task_element.name.found
       \/ ~task_element.name.hasText
    THEN None
    ELSE Some([description |-> task_element.name.text,
               agent |-> task_element.delegatedTo.text])

parse_task(task_element) ==
    IF \/ ~task_element.name.found
       \/ ~task_element.name.hasText
       \/ ~task_element.delegatedTo.found
       \/ ~task_element.delegatedTo.hasText
    THEN None
    ELSE Some([description |-> task_element.name.text,
               agent |-> task_element.delegatedTo.text])

RECURSIVE ParseDelegatedAgentsUntilEmpty(_)
ParseDelegatedAgentsUntilEmpty(agents) ==
    IF agents = <<>> THEN <<>>
    ELSE LET agent == Head(agents)
         IN  IF agent.hasText /\ agent.text # <<>>
             THEN <<agent.text>> \o ParseDelegatedAgentsUntilEmpty(Tail(agents))
             ELSE <<>>

\* The loop over delegated_to.findall('agent'): entries with falsy text are skipped.
RECURSIVE ParseDelegatedAgents(_)
ParseDelegatedAgents(agents) ==
    IF agents = <<>> THEN <<>>
    ELSE LET agent == Head(agents)
         IN  (IF agent.hasText /\ agent.text # <<>> THEN <<agent.text>> ELSE <<>>)
                 \o ParseDelegatedAgents(Tail(agents))

ParseSubtasksFirstOnly(task_elems) ==
    IF task_elems = <<>> THEN <<>>
    ELSE parse_task(Head(task_elems))

\* The loop over tasks_element.findall('task'): a task element that parse_task
\* rejects is not appended.
RECURSIVE ParseSubtasks(_)
ParseSubtasks(task_elems) ==
    IF task_elems = <<>> THEN <<>>
    ELSE LET parsed_task == parse_task(Head(task_elems))
         IN  (IF parsed_task # None THEN parsed_task ELSE <<>>)
                 \o ParseSubtasks(Tail(task_elems))

parse_root_elements_only(root_element) ==
    LET name == root_element.name
        description == root_element.description
    IN  IF ~name.found \/ ~description.found
        THEN None
        ELSE Some([name |-> name.text,
                   description |-> description.text,
                   delegatedTo |->
                       IF root_element.delegatedTo.found
                       THEN ParseDelegatedAgents(root_element.delegatedTo.agents)
                       ELSE <<>>,
                   tasks |->
                       IF root_element.tasks.found
                       THEN ParseSubtasks(root_element.tasks.items)
                       ELSE <<>>])

parse_root_as_task(root_element) ==
    LET name == root_element.name
        description == root_element.description
    IN  IF \/ ~name.found
           \/ ~name.hasText
           \/ ~description.found
           \/ ~description.hasText
        THEN None
        ELSE Some([name |-> name.text,
                   description |-> description.text,
                   delegatedTo |->
                       IF root_element.delegatedTo.found
                       THEN ParseDelegatedAgents(root_element.delegatedTo.agents)
                       ELSE <<>>,
                   tasks |->
                       IF root_element.tasks.found
                       THEN ParseSubtasks(root_element.tasks.items)
                       ELSE <<>>])

parse_project_plan_any_root(file) ==
    IF file.state = "missing" THEN <<>>
    ELSE IF file.state = "unparsable" THEN <<>>
    ELSE LET task == parse_root_as_task(file.root)
         IN  IF task # None THEN task ELSE <<>>

\* parse_project_plan: [] for a missing file, an XML syntax error or a root
\* other than project_plan; else the list of the Task of the root, if any.
parse_project_plan(file) ==
    IF file.state = "missing" THEN <<>>
    ELSE IF file.state = "unparsable" THEN <<>>
    ELSE IF file.root.tag # S_project_plan THEN <<>>
    ELSE LET task == parse_root_as_task(file.root)
         IN  IF task # None THEN task ELSE <<>>

(***************************************************************************)
(* The plan documents the flow is run on.                                  *)
(***************************************************************************)
FieldChoices == {Absent, Empty, Txt(S_text)}

RoleTexts == {S_coder, S_Tester, S_project_manager, S_debugger, S_designer}

WellFormedTaskElems == {[name |-> Txt(S_text), delegatedTo |-> Txt(r)] : r \in RoleTexts}

MalformedTaskElems ==
    { [name |-> Absent, delegatedTo |-> Txt(S_coder)],
      [name |-> Empty, delegatedTo |-> Txt(S_coder)],
      [name |-> Txt(S_text), delegatedTo |-> Absent],
      [name |-> Txt(S_text), delegatedTo |-> Empty] }

TaskElems == WellFormedTaskElems \cup MalformedTaskElems

TasksChoices ==
    {[found |-> FALSE, items |-> <<>>]}
        \cup {[found |-> TRUE, items |-> items] : items \in SeqsUpTo(TaskElems, MaxSubtasks)}

DelegatedChoices ==
    { [found |-> FALSE, agents |-> <<>>],
      [found |-> TRUE,
       agents |-> <<[hasText |-> TRUE, text |-> S_tester],
                    [hasText |-> FALSE, text |-> <<>>],
                    [hasText |-> TRUE, text |-> S_coder]>>] }

NoRoot ==
    [tag |-> <<>>, name |-> Absent, description |-> Absent,
     delegatedTo |-> [found |-> FALSE, agents |-> <<>>],
     tasks |-> [found |-> FALSE, items |-> <<>>]]

Roots(tags) ==
    [tag : tags, name : FieldChoices, description : FieldChoices,
     delegatedTo : DelegatedChoices, tasks : TasksChoices]

PlanFiles ==
    {[state |-> "missing", root |-> NoRoot], [state |-> "unparsable", root |-> NoRoot]}
        \cup {[state |-> "ok", root |-> r] : r \in Roots({S_project_plan})}
        \cup {[state |-> "ok",
               root |-> [tag |-> S_plan, name |-> Txt(S_text), description |-> Txt(S_text),
                         delegatedTo |-> [found |-> FALSE, agents |-> <<>>],
                         tasks |-> t]] :
                  t \in {[found |-> TRUE, items |-> <<e>>] : e \in WellFormedTaskElems}}

(***************************************************************************)
(* scripts/agent_chat_tools.py: execute_agent_tasks builds the schedule    *)
(* (agent_order) and the active agent list (ordered_agents).               *)
(***************************************************************************)
RegistryKeys == {S_coder, S_project_manager, S_tester, S_debugger}

agent_instances(agent_name) ==
    CASE agent_name = S_coder -> coder
      [] agent_name = S_project_manager -> project_manager
      [] agent_name = S_tester -> tester
      [] agent_name = S_debugger -> debugger

RECURSIVE Repeat(_, _)
Repeat(seq, n) == IF n = 0 THEN <<>> ELSE seq \o Repeat(seq, n - 1)

debug_loop_one_more == Repeat(<<S_tester, S_debugger, S_coder>>, num_debug_loops + 1)

debug_loop == Repeat(<<S_tester, S_debugger, S_coder>>, num_debug_loops)

RECURSIVE CollectAgentsOnce(_, _)
CollectAgentsOnce(subtasks, acc) ==
    IF subtasks = <<>> THEN acc
    ELSE LET agent_name == Lower(Head(subtasks).agent)
         IN  IF agent_name \notin acc.seen_agents
             THEN CollectAgentsOnce(Tail(subtasks),
                      [seen_agents |-> acc.seen_agents \cup {agent_name},
                       ordered_agents |->
                           IF agent_name \in RegistryKeys
                           THEN Append(acc.ordered_agents, agent_instances(agent_name))
                           ELSE acc.ordered_agents,
                       agent_order |-> Append(acc.agent_order, agent_name)])
             ELSE CollectAgentsOnce(Tail(subtasks), acc)

RECURSIVE CollectAgentsEveryMention(_, _)
CollectAgentsEveryMention(subtasks, acc) ==
    IF subtasks = <<>> THEN acc
    ELSE LET agent_name == Lower(Head(subtasks).agent)
         IN  CollectAgentsEveryMention(Tail(subtasks),
                 [seen_agents |-> acc.seen_agents \cup {agent_name},
                  ordered_agents |->
                      IF agent_name \in RegistryKeys
                      THEN Append(acc.ordered_agents, agent_instances(agent_name))
                      ELSE acc.ordered_agents,
                  agent_order |-> Append(acc.agent_order, agent_name)])

\* The loop over the subtasks; acc holds seen_agents, ordered_agents, agent_order.
RECURSIVE CollectAgents(_, _)
CollectAgents(subtasks, acc) ==
    IF subtasks = <<>> THEN acc
    ELSE LET agent_name == Lower(Head(subtasks).agent)
             order == Append(acc.agent_order, agent_name)
         IN  IF agent_name \notin acc.seen_agents
             THEN CollectAgents(Tail(subtasks),
                      [seen_agents |-> acc.seen_agents \cup {agent_name},
                       ordered_agents |->
                           IF agent_name \in RegistryKeys
                           THEN Append(acc.ordered_agents, agent_instances(agent_name))
                           ELSE acc.ordered_agents,
                       agent_order |-> order])
             ELSE CollectAgents(Tail(subtasks), [acc EXCEPT !.agent_order = order])

AddDebuggerToOrderOnly(acc) ==
    IF S_debugger \notin acc.seen_agents
    THEN [acc EXCEPT !.seen_agents = @ \cup {S_debugger},
                     !.agent_order = Append(@, S_debugger)]
    ELSE acc

AddDebuggerNever(acc) == acc

\* "Add debugger to the agent order if not already included"
AddDebugger(acc) ==
    IF S_debugger \notin acc.seen_agents
    THEN [seen_agents |-> acc.seen_agents \cup {S_debugger},
          ordered_agents |-> Append(acc.ordered_agents, debugger),
          agent_order |-> Append(acc.agent_order, S_debugger)]
    ELSE acc

AddDebugLoopOnce(acc) == [acc EXCEPT !.agent_order = @ \o <<S_tester, S_debugger, S_coder>>]

\* "Add debug loop pattern"
AddDebugLoop(acc) == [acc EXCEPT !.agent_order = @ \o debug_loop]

BuildAgentTeamWithDelegated(task) ==
    AddDebugLoop(AddDebugger(CollectAgents(task.tasks,
        CollectAgents([i \in 1..Len(task.delegatedTo) |->
                          [description |-> <<>>, agent |-> task.delegatedTo[i]]],
            [seen_agents |-> {}, ordered_agents |-> <<>>, agent_order |-> <<>>]))))

BuildAgentTeam(task) ==
    AddDebugLoop(AddDebugger(CollectAgents(task.tasks,
        [seen_agents |-> {}, ordered_agents |-> <<>>, agent_order |-> <<>>])))

ChatModeAlwaysMulti(agents) == "multi"

\* setup_group_chat: one agent gives a single-agent chat, else a multi-agent chat.
ChatModeOf(agents) == IF Len(agents) = 1 THEN "single" ELSE "multi"

(***************************************************************************)
(* The turn selector of setup_multi_agent_chat.  n is len(groupchat.       *)
(* messages); last_speaker is only logged.                                 *)
(***************************************************************************)
MinOf(S) == CHOOSE i \in S : \A j \in S : i <= j

FindAgentFallbackLast(agents, agent_name) ==
    LET matches == {i \in 1..Len(agents) : Lower(agents[i]) = agent_name}
    IN  IF matches # {} THEN agents[MinOf(matches)] ELSE agents[Len(agents)]

\* next((agent for agent in agents if agent.name.lower() == agent_name), agents[0])
FindAgent(agents, agent_name) ==
    LET matches == {i \in 1..Len(agents) : Lower(agents[i]) = agent_name}
    IN  IF matches # {} THEN agents[MinOf(matches)] ELSE agents[1]

\* all_agents = [user_proxy] + agents, the agents of the GroupChat.
AllAgents(agents) == <<user_proxy>> \o agents

selector_over_all_agents(n, order, agents) ==
    LET all_agents == AllAgents(agents)
    IN  IF n = 0 THEN all_agents[1]
        ELSE IF order # <<>>
        THEN FindAgent(all_agents, Lower(order[((n \div MessagesPerTurn) % Len(order)) + 1]))
        ELSE all_agents[((n \div MessagesPerTurn) % Len(all_agents)) + 1]

selector_per_message(n, order, agents) ==
    IF n = 0 THEN agents[1]
    ELSE IF order # <<>>
    THEN FindAgent(agents, Lower(order[(n % Len(order)) + 1]))
    ELSE agents[(n % Len(agents)) + 1]

selector_no_first_check(n, order, agents) ==
    IF order # <<>>
    THEN FindAgent(agents, Lower(order[((n \div MessagesPerTurn) % Len(order)) + 1]))
    ELSE agents[((n \div MessagesPerTurn) % Len(agents)) + 1]

selector_first_agent_without_order(n, order, agents) ==
    IF n = 0 THEN agents[1]
    ELSE IF order # <<>>
    THEN FindAgent(agents, Lower(order[((n \div MessagesPerTurn) % Len(order)) + 1]))
    ELSE agents[1]

selector_stays_at_last_entry(n, order, agents) ==
    IF n = 0 THEN agents[1]
    ELSE IF order # <<>>
    THEN LET message_index == n \div MessagesPerTurn
             agent_index == IF message_index < Len(order) THEN message_index
                            ELSE Len(order) - 1
         IN  FindAgent(agents, Lower(order[agent_index + 1]))
    ELSE agents[((n \div MessagesPerTurn) % Len(agents)) + 1]

custom_speaker_selection_func(n, order, agents) ==
    IF n = 0 THEN agents[1]
    ELSE IF order # <<>>
    THEN LET message_index == n \div MessagesPerTurn
             agent_index == message_index % Len(order)
             agent_name == Lower(order[agent_index + 1])
         IN  FindAgent(agents, agent_name)
    ELSE agents[((n \div MessagesPerTurn) % Len(agents)) + 1]

(***************************************************************************)
(* The main flow: parse the plan, run execute_agent_tasks for the parsed   *)
(* Task, return.  The conversation is the group chat that                  *)
(* setup_group_chat starts: GroupChat(messages=[]), then initiate_chat     *)
(* appends the initial message, then one speaker selection and one         *)
(* appended reply per round until max_round messages exist or an agent     *)
(* terminates the chat.                                                    *)
(***************************************************************************)
(***************************************************************************)
(* The project directory.  An entry is missing, a file with its content or *)
(* a directory with the names of what it holds; a name is hidden when it   *)
(* starts with a dot.                                                      *)
(***************************************************************************)
N_project_plan_xml == S_project_plan \o <<".", "x", "m", "l">>
N_main_py == <<"m", "a", "i", "n", ".", "p", "y">>
N_pkg == <<"p", "k", "g">>
N_db == <<".", "d", "b">>
N_env == <<".", "e", "n", "v">>
N_mod_py == <<"m", "o", "d", ".", "p", "y">>
N_cache == <<".", "c", "a", "c", "h", "e">>

EntryNames == {N_project_plan_xml, N_main_py, N_pkg, N_db, N_env}

\* os.listdir(project_dir) in an order of the directory.
ListingOrder == <<N_db, N_project_plan_xml, N_pkg, N_env, N_main_py>>

Missing == [kind |-> "none", content |-> <<>>, children |-> {}]
File(content) == [kind |-> "file", content |-> content, children |-> {}]
Dir(children) == [kind |-> "dir", content |-> <<>>, children |-> children]

PlanContents == {<<>>, S_plan, S_text}

ProjectDirs ==
    { [n \in EntryNames |->
          CASE n = N_project_plan_xml -> p
            [] n = N_main_py -> m
            [] n = N_pkg -> k
            [] n = N_db -> d
            [] n = N_env -> e] :
        p \in {Missing} \cup {File(c) : c \in PlanContents},
        m \in {Missing, File(S_text)},
        k \in {Missing, Dir({}), Dir({N_mod_py, N_cache})},
        d \in {Missing, Dir({N_mod_py})},
        e \in {Missing, File(S_text)} }

NoCall == [fn |-> "none", before |-> <<>>, value |-> <<>>, refused |-> {}]

\* The state of the directory part while the flow after the set-up is modelled.
FsIdle ==
    /\ project_dir = [n \in EntryNames |-> Missing]
    /\ fs_pc = "idle"
    /\ reset_db = FALSE
    /\ last_plan = Missing
    /\ fs_call = NoCall

(***************************************************************************)
(* scripts/agent_tools.py: the code that the tools execute, the files      *)
(* that test_file reads, and the idle state of the tools.                  *)
(***************************************************************************)
MaxCalls == 2        \* calls of execute_python_code in a behaviour

Console == 0

S_ErrorColon == <<"E", "r", "r", "o", "r", ":">>
T_print == <<"p", "r", "i", "n", "t", "(", "1", ")">>
T_divide == <<"1", "/", "0">>
T_annotated == S_ErrorColon \o <<" ", "i", "n", "t", " ", "=", " ", "1">>

\* What a run of a code does: the number of its print calls and how it ends.
Codes ==
    { [text |-> T_print, prints |-> 1, ending |-> "ends"],
      [text |-> T_divide, prints |-> 0, ending |-> "raises"],
      [text |-> T_annotated, prints |-> 0, ending |-> "ends"] }

CodeOf(text) == CHOOSE c \in Codes : c.text = text

\* The writes of execute() to sys.stdout: the prints of the code (the heading
\* goes with the first write), and the closing lines or the error block.
WritesOf(code) == code.prints + 1

Files ==
    {[state |-> "ok", text |-> c.text] : c \in Codes}
        \cup {[state |-> "missing", text |-> <<>>], [state |-> "denied", text |-> <<>>]}

NoWorker == [state |-> "unborn", left |-> 0, target |-> Console]

NoExec == [n |-> 0, pc |-> "idle", text |-> <<>>, original_stdout |-> Console,
           output |-> <<>>, caller |-> "none"]

NoTest == [pc |-> "idle", file |-> [state |-> "missing", text |-> <<>>],
           file_content |-> <<>>]

NoExecReturn == [call |-> 0, original |-> Console, stdout |-> Console,
                 kind |-> "none", text |-> <<>>]

NoTestReturn == [fn |-> "none", file |-> [state |-> "missing", text |-> <<>>],
                 read_error |-> FALSE, content |-> <<>>, executed |-> None,
                 execution |-> NoExecReturn]

ToolIdle ==
    /\ sys_stdout = Console
    /\ buffers = [c \in 1..MaxCalls |-> <<>>]
    /\ workers = [c \in 1..MaxCalls |-> NoWorker]
    /\ ecall = NoExec
    /\ tf = NoTest
    /\ exec_ret = NoExecReturn
    /\ test_ret = NoTestReturn

\* project_plan.xml when the project-manager chat starts: the empty file that
\* initialize_project_plan has just created, or the plan of an earlier run.
EarlierPlan ==
    [state |-> "ok",
     root |-> [tag |-> S_project_plan, name |-> Txt(S_text), description |-> Txt(S_text),
               delegatedTo |-> [found |-> FALSE, agents |-> <<>>],
               tasks |-> [found |-> TRUE,
                          items |-> <<[name |-> Txt(S_text), delegatedTo |-> Txt(S_coder)]>>]]]

InitialPlanFiles == {[state |-> "unparsable", root |-> NoRoot], EarlierPlan}

Init ==
    /\ FsIdle
    /\ ToolIdle
    /\ chat_result = "unset"
    /\ planFile \in InitialPlanFiles
    /\ pc = "start"
    /\ tasks = <<>>
    /\ agent_order = <<>>
    /\ ordered_agents = <<>>
    /\ chatMode = "none"
    /\ messageCount = 0
    /\ selected = NoAgent

\* The chat with the project manager (max_rounds = 3), in which the project
\* manager writes, rewrites, deletes or leaves project_plan.xml.
ProjectManagerChat ==
    /\ pc = "start"
    /\ chat_result = "unset"
    /\ chat_result' = "returned"
    /\ planFile' \in PlanFiles
    /\ UNCHANGED <<pc, tasks, agent_order, ordered_agents, chatMode, messageCount, selected>>
    /\ UNCHANGED <<fsVars, toolVars>>

ParseBeforeChat ==
    /\ pc = "start"
    /\ tasks' = parse_project_plan(planFile)
    /\ pc' = "parsed"
    /\ UNCHANGED <<fsVars, toolVars>>
    /\ UNCHANGED <<chat_result, planFile, agent_order, ordered_agents, chatMode, messageCount,
                   selected>>

ParseProjectPlan ==
    /\ pc = "start"
    /\ chat_result = "returned"
    /\ tasks' = parse_project_plan(planFile)
    /\ pc' = "parsed"
    /\ UNCHANGED <<fsVars, toolVars>>
    /\ UNCHANGED <<chat_result, planFile, agent_order, ordered_agents, chatMode, messageCount, selected>>

MainReturnsNoTask ==
    /\ pc = "parsed"
    /\ tasks = <<>>
    /\ pc' = "returned"
    /\ UNCHANGED <<fsVars, toolVars>>
    /\ UNCHANGED <<chat_result, planFile, tasks, agent_order, ordered_agents, chatMode, messageCount,
                   selected>>

ExecuteAgentTasks ==
    /\ pc = "parsed"
    /\ tasks # <<>>
    /\ LET team == BuildAgentTeam(tasks[1])
       IN  /\ agent_order' = team.agent_order
           /\ ordered_agents' = team.ordered_agents
           /\ chatMode' = ChatModeOf(team.ordered_agents)
    /\ messageCount' = 1
    /\ pc' = "chat"
    /\ UNCHANGED <<fsVars, toolVars>>
    /\ UNCHANGED <<chat_result, planFile, tasks, selected>>

MultiAgentRound ==
    /\ pc = "chat"
    /\ chatMode = "multi"
    /\ messageCount < ExecuteMaxRounds
    /\ selected' = custom_speaker_selection_func(messageCount, agent_order, ordered_agents)
    /\ messageCount' = messageCount + 1
    /\ UNCHANGED <<fsVars, toolVars>>
    /\ UNCHANGED <<chat_result, planFile, pc, tasks, agent_order, ordered_agents, chatMode>>

SingleAgentRound ==
    /\ pc = "chat"
    /\ chatMode = "single"
    /\ messageCount < ExecuteMaxRounds
    /\ selected' \in {user_proxy, ordered_agents[1]}
    /\ messageCount' = messageCount + 1
    /\ UNCHANGED <<fsVars, toolVars>>
    /\ UNCHANGED <<chat_result, planFile, pc, tasks, agent_order, ordered_agents, chatMode>>

ChatEnds ==
    /\ pc = "chat"
    /\ pc' = "returned"
    /\ UNCHANGED <<fsVars, toolVars>>
    /\ UNCHANGED <<chat_result, planFile, tasks, agent_order, ordered_agents, chatMode, messageCount,
                   selected>>

Next ==
    \/ ProjectManagerChat
    \/ ParseProjectPlan
    \/ MainReturnsNoTask
    \/ ExecuteAgentTasks
    \/ MultiAgentRound
    \/ SingleAgentRound
    \/ ChatEnds

Spec == Init /\ [][Next]_vars

(***************************************************************************)
(* The turn selector as a function: every message count, schedule and      *)
(* agent list of the bounded sets, and one application of the selector.    *)
(***************************************************************************)
ScheduleNames == {S_coder, S_tester, S_Up_Debugger, S_designer}

ScenarioOrder ==
    <<S_project_manager, S_coder, S_debugger>> \o debug_loop

ScenarioAgents == <<project_manager, coder, debugger>>

\* A schedule that names the user proxy.
ProxyOrder == <<S_user_proxy, S_coder>>

Schedules == SeqsUpTo(ScheduleNames, MaxOrderLen) \cup {ScenarioOrder, ProxyOrder}

SelectorAgents == {coder, tester, debugger}

NoDuplicates(s) == \A i, j \in 1..Len(s) : i # j => s[i] # s[j]

AgentLists ==
    {a \in SeqsUpTo(SelectorAgents, MaxAgents) : a # <<>> /\ NoDuplicates(a)}
        \cup {ScenarioAgents}

\* last_speaker of the call: the initiator of the chat or the agent selected before.
LastSpeakers == {user_proxy, coder, tester}

SelInit ==
    /\ FsIdle
    /\ ToolIdle
    /\ chat_result = "returned"
    /\ planFile = [state |-> "missing", root |-> NoRoot]
    /\ pc = "select"
    /\ tasks = <<>>
    /\ agent_order \in Schedules
    /\ ordered_agents \in AgentLists
    /\ chatMode = "multi"
    /\ messageCount \in 0..MaxElapsed
    /\ selected \in LastSpeakers

ApplySelectorAvoidRepeat ==
    /\ pc = "select"
    /\ LET s == custom_speaker_selection_func(messageCount, agent_order, ordered_agents)
           at == MinOf({i \in 1..Len(ordered_agents) : ordered_agents[i] = s})
       IN  selected' = IF s = selected
                       THEN ordered_agents[(at % Len(ordered_agents)) + 1]
                       ELSE s
    /\ pc' = "selected"
    /\ UNCHANGED <<fsVars, toolVars>>
    /\ UNCHANGED <<chat_result, planFile, tasks, agent_order, ordered_agents, chatMode, messageCount>>

ApplySelector ==
    /\ pc = "select"
    /\ selected' = custom_speaker_selection_func(messageCount, agent_order, ordered_agents)
    /\ pc' = "selected"
    /\ UNCHANGED <<fsVars, toolVars>>
    /\ UNCHANGED <<chat_result, planFile, tasks, agent_order, ordered_agents, chatMode, messageCount>>

SelNext == ApplySelector

SelSpec == SelInit /\ [][SelNext]_vars

(***************************************************************************)
(* scripts/file_tools.py and scripts/project_tools.py: the set-up of a run *)
(* of main before the project-manager chat.  os_error says whether the     *)
(* operating system refuses the operation (OSError).                       *)
(***************************************************************************)
\* os.path.basename(path).startswith('.')
Hidden(name) == Head(name) = "."

\* delete_non_hidden_file: [dir, value], value the returned bool.
delete_file_hidden_too(dir, name, os_error) ==
    IF dir[name].kind = "file"
    THEN IF os_error
         THEN [dir |-> dir, value |-> FALSE]
         ELSE [dir |-> [dir EXCEPT ![name] = Missing], value |-> TRUE]
    ELSE [dir |-> dir, value |-> FALSE]

delete_non_hidden_file(dir, name, os_error) ==
    IF dir[name].kind = "file" /\ ~Hidden(name)
    THEN IF os_error
         THEN [dir |-> dir, value |-> FALSE]
         ELSE [dir |-> [dir EXCEPT ![name] = Missing], value |-> TRUE]
    ELSE [dir |-> dir, value |-> FALSE]

\* delete_non_hidden_directory: when shutil.rmtree fails, left is what it had
\* not yet removed from the directory.
delete_non_hidden_directory(dir, name, os_error, left) ==
    IF dir[name].kind = "dir" /\ ~Hidden(name)
    THEN IF os_error
         THEN [dir |-> [dir EXCEPT ![name] = Dir(dir[name].children \cap left)],
               value |-> FALSE]
         ELSE [dir |-> [dir EXCEPT ![name] = Missing], value |-> TRUE]
    ELSE [dir |-> dir, value |-> FALSE]

\* The loop of reset_project_files over the listed items; acc holds the
\* directory, removed_count and the values the two functions returned.
RECURSIVE ResetItems(_, _, _, _)
ResetItems(items, acc, refused, left) ==
    IF items = <<>> THEN acc
    ELSE LET item == Head(items)
             f == delete_non_hidden_file(acc.dir, item, item \in refused)
             d == delete_non_hidden_directory(f.dir, item, item \in refused, left)
         IN  IF acc.dir[item].kind = "none"
             THEN ResetItems(Tail(items), acc, refused, left)
             ELSE IF f.value
             THEN ResetItems(Tail(items),
                      [dir |-> f.dir,
                       removed_count |-> acc.removed_count + 1,
                       returned |-> acc.returned @@ (item :> <<TRUE>>)],
                      refused, left)
             ELSE ResetItems(Tail(items),
                      [dir |-> d.dir,
                       removed_count |-> acc.removed_count + (IF d.value THEN 1 ELSE 0),
                       returned |-> acc.returned @@ (item :> <<FALSE, d.value>>)],
                      refused, left)

reset_project_files(dir, refused, left) ==
    ResetItems(ListingOrder, [dir |-> dir, removed_count |-> 0, returned |-> <<>>],
               refused, left)

initialize_plan_truncating(dir, os_error) ==
    IF os_error
    THEN [dir |-> dir, value |-> None]
    ELSE [dir |-> [dir EXCEPT ![N_project_plan_xml] = File(<<>>)],
          value |-> Some(dir[N_project_plan_xml].kind # "none")]

\* initialize_project_plan: value is Some(the returned bool), or None when the
\* creation failed and the exception was raised again.
initialize_project_plan(dir, os_error) ==
    IF dir[N_project_plan_xml].kind = "none"
    THEN IF os_error
         THEN [dir |-> dir, value |-> None]
         ELSE [dir |-> [dir EXCEPT ![N_project_plan_xml] = File(<<>>)],
               value |-> Some(FALSE)]
    ELSE [dir |-> dir, value |-> Some(TRUE)]

FsInit ==
    /\ ToolIdle
    /\ project_dir \in ProjectDirs
    /\ fs_pc = "idle"
    /\ reset_db = FALSE
    /\ last_plan = project_dir[N_project_plan_xml]
    /\ fs_call = NoCall
    /\ chat_result = "unset"
    /\ planFile = [state |-> "missing", root |-> NoRoot]
    /\ pc = "start"
    /\ tasks = <<>>
    /\ agent_order = <<>>
    /\ ordered_agents = <<>>
    /\ chatMode = "none"
    /\ messageCount = 0
    /\ selected = NoAgent

\* main is started, with or without --reset.
RunStarts ==
    /\ fs_pc = "idle"
    /\ reset_db' \in BOOLEAN
    /\ fs_pc' = "setup"
    /\ UNCHANGED <<project_dir, last_plan, fs_call>>
    /\ UNCHANGED <<flowVars, toolVars>>

\* setup_project_directory: the project directory and its .db directory exist.
SetupProjectDirectory ==
    /\ fs_pc = "setup"
    /\ project_dir' = [project_dir EXCEPT
                          ![N_db] = IF @.kind = "dir" THEN @ ELSE Dir({})]
    /\ fs_call' = [fn |-> "setup_project_directory", before |-> project_dir,
                   value |-> <<>>, refused |-> {}]
    /\ fs_pc' = IF reset_db THEN "reset" ELSE "init"
    /\ UNCHANGED <<reset_db, last_plan>>
    /\ UNCHANGED <<flowVars, toolVars>>

ResetProjectFiles ==
    /\ fs_pc = "reset"
    /\ \E refused \in SUBSET {n \in EntryNames : project_dir[n].kind # "none"} :
       \E left \in SUBSET {N_mod_py, N_cache} :
          LET r == reset_project_files(project_dir, refused, left)
          IN  /\ project_dir' = r.dir
              /\ fs_call' = [fn |-> "reset_project_files", before |-> project_dir,
                             value |-> r.returned, refused |-> refused]
    /\ fs_pc' = "init"
    /\ UNCHANGED <<reset_db, last_plan>>
    /\ UNCHANGED <<flowVars, toolVars>>

\* initialize_project_plan; when it raises, main ends.
InitializeProjectPlan ==
    /\ fs_pc = "init"
    /\ \E os_error \in BOOLEAN :
          LET r == initialize_project_plan(project_dir, os_error)
          IN  /\ project_dir' = r.dir
              /\ fs_call' = [fn |-> "initialize_project_plan", before |-> project_dir,
                             value |-> r.value, refused |-> {}]
              /\ fs_pc' = IF r.value = None THEN "ended" ELSE "work"
    /\ UNCHANGED <<reset_db, last_plan>>
    /\ UNCHANGED <<flowVars, toolVars>>

\* During the chats of the run the agents write the plan and source files.
AgentWritesFile ==
    /\ fs_pc = "work"
    /\ \E n \in {N_project_plan_xml, N_main_py} : \E c \in PlanContents :
          project_dir' = [project_dir EXCEPT ![n] = File(c)]
    /\ UNCHANGED <<fs_pc, reset_db, last_plan, fs_call>>
    /\ UNCHANGED <<flowVars, toolVars>>

RunEnds ==
    /\ fs_pc \in {"work", "ended"}
    /\ last_plan' = project_dir[N_project_plan_xml]
    /\ fs_pc' = "idle"
    /\ UNCHANGED <<project_dir, reset_db, fs_call>>
    /\ UNCHANGED <<flowVars, toolVars>>

FsNext ==
    \/ RunStarts
    \/ SetupProjectDirectory
    \/ ResetProjectFiles
    \/ InitializeProjectPlan
    \/ AgentWritesFile
    \/ RunEnds

FsSpec == FsInit /\ [][FsNext]_vars

(***************************************************************************)
(* scripts/agent_tools.py: execute_python_code and test_file, called by    *)
(* the agents one call after the other.  The thread a call started goes on *)
(* after a timeout; sys.stdout is one per process.                         *)
(***************************************************************************)
StartsWith(s, prefix) ==
    Len(s) >= Len(prefix) /\ SubSeq(s, 1, Len(prefix)) = prefix

NotFoundMessage == S_ErrorColon \o <<" ", "n", "o", "t", " ", "f", "o", "u", "n", "d">>
DeniedMessage == S_ErrorColon \o <<" ", "d", "e", "n", "i", "e", "d">>

\* read_file_content: the content of the file, or an error message.
read_file_content(file) ==
    CASE file.state = "ok" -> file.text
      [] file.state = "missing" -> NotFoundMessage
      [] file.state = "denied" -> DeniedMessage

\* test_file takes a content for a read error by its first characters.
IsReadError(file, file_content) == StartsWith(file_content, S_ErrorColon)

ToolInit ==
    /\ ToolIdle
    /\ FsIdle
    /\ chat_result = "returned"
    /\ planFile = [state |-> "missing", root |-> NoRoot]
    /\ pc = "chat"
    /\ tasks = <<>>
    /\ agent_order = <<>>
    /\ ordered_agents = <<>>
    /\ chatMode = "none"
    /\ messageCount = 0
    /\ selected = NoAgent

\* execute_python_code up to thread.start(): original_stdout is saved,
\* sys.stdout is the new capture buffer, the thread runs execute().  started
\* is FALSE when starting the thread raises.
ExecuteStarts(text, caller, started) ==
    LET c == ecall.n + 1
    IN  /\ sys_stdout' = c
        /\ buffers' = [buffers EXCEPT ![c] = <<>>]
        /\ workers' = [workers EXCEPT ![c] =
                          IF started
                          THEN [state |-> "ready", left |-> WritesOf(CodeOf(text)),
                                target |-> Console]
                          ELSE NoWorker]
        /\ ecall' = [n |-> c, pc |-> IF started THEN "joining" ELSE "failed",
                     text |-> text, original_stdout |-> sys_stdout,
                     output |-> <<>>, caller |-> caller]

AgentCallsExecute ==
    /\ ecall.pc = "idle"
    /\ tf.pc = "idle"
    /\ ecall.n < MaxCalls
    /\ \E code \in Codes : \E started \in BOOLEAN :
          ExecuteStarts(code.text, "agent", started)
    /\ UNCHANGED <<tf, exec_ret, test_ret>>
    /\ UNCHANGED <<flowVars, fsVars>>

\* print(...) in the thread: sys.stdout is looked up ...
WorkerLooksUpStdout ==
    /\ \E c \in 1..MaxCalls :
          /\ workers[c].state = "ready"
          /\ workers' = [workers EXCEPT ![c].state = "writing", ![c].target = sys_stdout]
    /\ UNCHANGED <<sys_stdout, buffers, ecall, tf, exec_ret, test_ret>>
    /\ UNCHANGED <<flowVars, fsVars>>

\* The capture buffer of call b still is sys.stdout of its call.
Capturing(b) == ecall.n = b /\ ecall.pc \in {"joining", "joined"}

\* The capture buffer of call b can still be read by its call.
InUse(b) == ecall.n = b /\ ecall.pc \in {"joining", "joined", "restored"}

\* ... and then written to; after its last print the thread ends.  What is
\* written to the console, or to a buffer that no call reads any more, is not
\* kept.
WorkerWrites ==
    /\ \E c \in 1..MaxCalls :
          /\ workers[c].state = "writing"
          /\ LET b == workers[c].target
             IN  buffers' = IF b # Console /\ InUse(b)
                            THEN [buffers EXCEPT ![b] =
                                     Append(@, [by |-> c, late |-> ~Capturing(b)])]
                            ELSE buffers
          /\ workers' = [workers EXCEPT ![c] =
                            IF workers[c].left = 1
                            THEN [state |-> "done", left |-> 0, target |-> Console]
                            ELSE [state |-> "ready", left |-> workers[c].left - 1,
                                  target |-> Console]]
    /\ UNCHANGED <<sys_stdout, ecall, tf, exec_ret, test_ret>>
    /\ UNCHANGED <<flowVars, fsVars>>

\* thread.join(timeout=10) returns: the thread has ended or the 10 seconds are over.
ThreadJoinReturns ==
    /\ ecall.pc = "joining"
    /\ ecall' = [ecall EXCEPT !.pc = "joined"]
    /\ UNCHANGED <<sys_stdout, buffers, workers, tf, exec_ret, test_ret>>
    /\ UNCHANGED <<flowVars, fsVars>>

\* sys.stdout = original_stdout
RestoreStdout ==
    /\ ecall.pc = "joined"
    /\ sys_stdout' = ecall.original_stdout
    /\ ecall' = [ecall EXCEPT !.pc = "restored"]
    /\ UNCHANGED <<buffers, workers, tf, exec_ret, test_ret>>
    /\ UNCHANGED <<flowVars, fsVars>>

\* output = output_buffer.getvalue()
GetValue ==
    /\ ecall.pc = "restored"
    /\ ecall' = [ecall EXCEPT !.pc = "read", !.output = buffers[ecall.n]]
    /\ UNCHANGED <<sys_stdout, buffers, workers, tf, exec_ret, test_ret>>
    /\ UNCHANGED <<flowVars, fsVars>>

\* The value execute_python_code returns, and the finally block.
Returned(kind, text) ==
    /\ sys_stdout' = ecall.original_stdout
    /\ buffers' = [buffers EXCEPT ![ecall.n] = <<>>]
    /\ exec_ret' = [call |-> ecall.n, original |-> ecall.original_stdout,
                    stdout |-> ecall.original_stdout, kind |-> kind, text |-> text]
    /\ ecall' = [ecall EXCEPT !.pc = "idle"]
    /\ tf' = IF ecall.caller = "test_file" THEN [tf EXCEPT !.pc = "executed"] ELSE tf

\* thread.is_alive(), then the timeout message with the partial output, the
\* "no output" message or the output.
ExecuteReturns ==
    /\ ecall.pc = "read"
    /\ Returned(IF workers[ecall.n].state # "done" THEN "timeout"
                ELSE IF ecall.output = <<>> THEN "no output"
                ELSE "output",
                ecall.output)
    /\ UNCHANGED <<workers, test_ret>>
    /\ UNCHANGED <<flowVars, fsVars>>

\* except Exception: the error message is returned.
ExecuteFails ==
    /\ ecall.pc = "failed"
    /\ Returned("error", <<>>)
    /\ UNCHANGED <<workers, test_ret>>
    /\ UNCHANGED <<flowVars, fsVars>>

\* test_file up to its call of execute_python_code, or to its return of the
\* read error.
AgentCallsTestFile ==
    /\ ecall.pc = "idle"
    /\ tf.pc = "idle"
    /\ ecall.n < MaxCalls
    /\ \E file \in Files :
          LET file_content == read_file_content(file)
          IN  IF IsReadError(file, file_content)
              THEN /\ test_ret' = [fn |-> "test_file", file |-> file, read_error |-> TRUE,
                                   content |-> file_content, executed |-> None,
                                   execution |-> NoExecReturn]
                   /\ UNCHANGED <<sys_stdout, buffers, workers, ecall, tf>>
              ELSE /\ \E started \in BOOLEAN :
                         ExecuteStarts(file_content, "test_file", started)
                   /\ tf' = [pc |-> "executing", file |-> file,
                             file_content |-> file_content]
                   /\ UNCHANGED test_ret
    /\ UNCHANGED exec_ret
    /\ UNCHANGED <<flowVars, fsVars>>

TestFileReturns ==
    /\ tf.pc = "executed"
    /\ test_ret' = [fn |-> "test_file", file |-> tf.file, read_error |-> FALSE,
                    content |-> tf.file_content, executed |-> Some(ecall.text),
                    execution |-> exec_ret]
    /\ tf' = NoTest
    /\ UNCHANGED <<sys_stdout, buffers, workers, ecall, exec_ret>>
    /\ UNCHANGED <<flowVars, fsVars>>

ToolNext ==
    \/ AgentCallsExecute
    \/ AgentCallsTestFile
    \/ WorkerLooksUpStdout
    \/ WorkerWrites
    \/ ThreadJoinReturns
    \/ RestoreStdout
    \/ GetValue
    \/ ExecuteReturns
    \/ ExecuteFails
    \/ TestFileReturns

ToolSpec == ToolInit /\ [][ToolNext]_vars

(***************************************************************************)
(* The conversations of the main flow together with the selector applied   *)
(* to every input of the bounded sets.                                     *)
(***************************************************************************)
AllInit == Init \/ SelInit

AllNext == Next \/ SelNext

AllSpec == AllInit /\ [][AllNext]_vars

(***************************************************************************)
(* Vocabulary of the properties.                                           *)
(***************************************************************************)
Range(s) == {s[i] : i \in 1..Len(s)}

HasText(field) == field.found /\ field.hasText

ValidRoot(file) ==
    /\ file.state = "ok"
    /\ file.root.tag = S_project_plan
    /\ HasText(file.root.name)
    /\ HasText(file.root.description)

MalformedSubtask(elem) == ~HasText(elem.name) \/ ~HasText(elem.delegatedTo)

HasMalformedSubtask(file) ==
    /\ file.root.tasks.found
    /\ \E i \in 1..Len(file.root.tasks.items) : MalformedSubtask(file.root.tasks.items[i])

IsWellFormedElem(elem) == ~MalformedSubtask(elem)

\* The subtasks of the well-formed task elements, in document order.
WellFormedSubtasks(file) ==
    LET kept == SelectSeq(file.root.tasks.items, IsWellFormedElem)
    IN  [i \in 1..Len(kept) |->
            [description |-> kept[i].name.text, agent |-> kept[i].delegatedTo.text]]

Built == pc \in {"chat", "returned"} /\ tasks # <<>>

\* The schedule entry in force at message count n.
TurnIndex(n, order) == (n \div MessagesPerTurn) % Len(order)
TurnEntry(n, order) == order[TurnIndex(n, order) + 1]

Matches(agents, entry) == {i \in 1..Len(agents) : Lower(agents[i]) = Lower(entry)}

(***************************************************************************)
(* C1.  Strict subtask validation, as claimed: a plan with a valid root    *)
(* and at least one subtask lacking its name or its delegatedTo makes the  *)
(* whole parse fail, so that no Task is returned.                          *)
(***************************************************************************)
C1_WholeParseFails ==
    (pc # "start" /\ ValidRoot(planFile) /\ HasMalformedSubtask(planFile))
        => tasks = <<>>

(***************************************************************************)
(* C1, amended.  For a plan with a valid root and at least one subtask     *)
(* lacking its name or its delegatedTo, the parse succeeds: it returns one *)
(* Task whose subtasks are exactly the well-formed subtasks of the         *)
(* document, in document order, the malformed ones skipped; parsing the    *)
(* same document again gives the same result.                              *)
(***************************************************************************)
C1_MalformedSubtasksSkipped ==
    (pc # "start" /\ ValidRoot(planFile) /\ HasMalformedSubtask(planFile))
        => /\ Len(tasks) = 1
           /\ tasks[1].tasks = WellFormedSubtasks(planFile)
           /\ Len(tasks[1].tasks) < Len(planFile.root.tasks.items)
           /\ parse_project_plan(planFile) = tasks

C1_Witness ==
    /\ pc = "parsed"
    /\ ValidRoot(planFile)
    /\ Len(planFile.root.tasks.items) = 2
    /\ planFile.root.tasks.items[1] = [name |-> Txt(S_text), delegatedTo |-> Txt(S_coder)]
    /\ planFile.root.tasks.items[2] = [name |-> Txt(S_text), delegatedTo |-> Absent]
    /\ Len(tasks) = 1
    /\ tasks[1].tasks = <<[description |-> S_text, agent |-> S_coder]>>

(***************************************************************************)
(* C2.  The schedule built for a parsed Task is the lower-cased roles of   *)
(* its subtasks in order (duplicates and unregistered roles kept), then    *)
(* 'debugger' once iff no subtask names it, then (tester, debugger, coder) *)
(* num_debug_loops times; subtasks [project_manager, coder] give the       *)
(* 12-entry schedule of the scenario.                                      *)
(***************************************************************************)
SubtaskRoles(task) == [i \in 1..Len(task.tasks) |-> Lower(task.tasks[i].agent)]

ExpectedSchedule(task) ==
    LET roles == SubtaskRoles(task)
        cycle == <<S_tester, S_debugger, S_coder>>
    IN  roles
          \o (IF \E i \in 1..Len(roles) : roles[i] = S_debugger THEN <<>> ELSE <<S_debugger>>)
          \o [i \in 1..(3 * num_debug_loops) |-> cycle[((i - 1) % 3) + 1]]

\* C2: the built schedule is subtask roles, then debugger iff unnamed, then the
\* debug loop; the scenario plan gives the 12-entry schedule.
C2_ScheduleIsConcatenation ==
    Built =>
        /\ agent_order = ExpectedSchedule(tasks[1])
        /\ SubtaskRoles(tasks[1]) = <<S_project_manager, S_coder>>
              => /\ Len(agent_order) = 12
                 /\ agent_order =
                      <<S_project_manager, S_coder, S_debugger,
                        S_tester, S_debugger, S_coder,
                        S_tester, S_debugger, S_coder,
                        S_tester, S_debugger, S_coder>>

C2_Witness ==
    /\ pc = "chat"
    /\ SubtaskRoles(tasks[1]) = <<S_project_manager, S_coder>>
    /\ Len(agent_order) = 12
    /\ agent_order[3] = S_debugger

(***************************************************************************)
(* C3.  For a message count e >= 1, a non-empty schedule and an agent list *)
(* that holds the scheduled agent, the selector returns the agent whose    *)
(* lower-cased name is schedule[(e div 3) mod len(schedule)]; in the       *)
(* 12-entry scenario e = 3 selects the coder and e = 6 the debugger.       *)
(***************************************************************************)
C3_SelectorFollowsSchedule ==
    (pc = "selected" /\ messageCount >= 1 /\ agent_order # <<>>)
        => /\ Matches(ordered_agents, TurnEntry(messageCount, agent_order)) # {}
                => /\ Lower(selected) = Lower(TurnEntry(messageCount, agent_order))
                   /\ selected \in Range(ordered_agents)
           /\ (agent_order = ScenarioOrder /\ ordered_agents = ScenarioAgents)
                => /\ messageCount = 3 => selected = coder
                   /\ messageCount = 6 => selected = debugger

C3_Witness ==
    /\ pc = "selected"
    /\ agent_order = ScenarioOrder
    /\ ordered_agents = ScenarioAgents
    /\ messageCount = 6
    /\ selected = debugger

(***************************************************************************)
(* C4.  Recovery guarantee: in a multi-agent conversation that covers one  *)
(* whole pass of the schedule (3 x len(schedule) messages), each role of   *)
(* the appended recovery cycle (tester, debugger, coder) has been selected *)
(* at one of its turns of the cycle, whatever roles the subtasks name.     *)
(***************************************************************************)
\* The number of schedule entries before the appended recovery cycle.
PrimaryLen(task) ==
    Len(task.tasks)
      + (IF \E i \in 1..Len(task.tasks) : Lower(task.tasks[i].agent) = S_debugger
         THEN 0 ELSE 1)

\* The message counts at which the selector has been called so far.
SelectionCounts == 1..(messageCount - 1)

CycleRoleTaken(role) ==
    \E e \in SelectionCounts :
        /\ TurnIndex(e, agent_order) >= PrimaryLen(tasks[1])
        /\ TurnEntry(e, agent_order) = role
        /\ Lower(custom_speaker_selection_func(e, agent_order, ordered_agents)) = role

\* C4: after one whole pass of a multi-agent conversation, tester, debugger and
\* coder have each been selected at a turn of the recovery cycle.
C4_RecoveryRolesSelected ==
    (pc = "chat" /\ chatMode = "multi"
        /\ messageCount >= MessagesPerTurn * Len(agent_order))
        => \A role \in {S_tester, S_debugger, S_coder} : CycleRoleTaken(role)

(***************************************************************************)
(* C5.  Bounded recovery, as claimed: over a whole multi-agent             *)
(* conversation the recovery cycle (tester -> debugger -> coder) is        *)
(* scheduled at most num_debug_loops times.                                *)
(***************************************************************************)
\* The logical turns reached so far at which a recovery cycle starts: the turn
\* lies in the appended part of the schedule and it and the two entries after
\* it read tester, debugger, coder.
CycleStarts ==
    {t \in 0..((messageCount - 1) \div MessagesPerTurn) :
        LET k == t % Len(agent_order)
        IN  /\ messageCount >= 2
            /\ k >= PrimaryLen(tasks[1])
            /\ (k - PrimaryLen(tasks[1])) % 3 = 0
            /\ k + 3 <= Len(agent_order)
            /\ SubSeq(agent_order, k + 1, k + 3) = <<S_tester, S_debugger, S_coder>>}

PassesStarted == (((messageCount - 1) \div MessagesPerTurn) \div Len(agent_order)) + 1

\* C5 as claimed: at most num_debug_loops recovery cycles are scheduled over the
\* whole conversation.
C5_AtMostNCycles ==
    (pc = "chat" /\ chatMode = "multi")
        => Cardinality(CycleStarts) <= num_debug_loops

(***************************************************************************)
(* C5, amended.  The recovery cycle is scheduled at most num_debug_loops   *)
(* times in each pass of the schedule; the selector wraps around the       *)
(* schedule, so the cycle is scheduled again in every further pass, and    *)
(* over the conversation the number of scheduled cycles is bounded by      *)
(* num_debug_loops times the number of passes started, which the round     *)
(* limit max_rounds = 99 bounds.                                           *)
(***************************************************************************)
C5_CyclesBoundedPerPass ==
    (pc = "chat" /\ chatMode = "multi")
        => /\ Cardinality(CycleStarts) <= num_debug_loops * PassesStarted
           /\ PassesStarted <=
                ((ExecuteMaxRounds \div MessagesPerTurn) \div Len(agent_order)) + 1
           /\ messageCount <= ExecuteMaxRounds
           /\ messageCount >= MessagesPerTurn * Len(agent_order)
                => Cardinality(CycleStarts) >= num_debug_loops

C5_Witness ==
    /\ pc = "chat"
    /\ chatMode = "multi"
    /\ messageCount = ExecuteMaxRounds
    /\ PassesStarted >= 3
    /\ Cardinality(CycleStarts) > 2 * num_debug_loops

(***************************************************************************)
(* C6.  First-turn invariant: at message count 0 the selector returns      *)
(* agents[0], for every schedule (an empty one included) and every agent   *)
(* list.                                                                   *)
(***************************************************************************)
C6_FirstTurn ==
    (pc = "selected" /\ messageCount = 0) => selected = ordered_agents[1]

C6_Witness ==
    /\ pc = "selected"
    /\ messageCount = 0
    /\ agent_order # <<>>
    /\ Matches(ordered_agents, agent_order[1]) = {2}
    /\ selected = ordered_agents[1]

(***************************************************************************)
(* C7.  Fallback safety: for a non-empty schedule, when the role in force  *)
(* at the message count matches no agent of the list (ignoring case), the  *)
(* selector returns agents[0]; it always returns an agent of the list.     *)
(***************************************************************************)
C7_FallbackToFirstAgent ==
    (pc = "selected" /\ agent_order # <<>>)
        => /\ selected \in Range(ordered_agents)
           /\ Matches(ordered_agents, TurnEntry(messageCount, agent_order)) = {}
                => selected = ordered_agents[1]

C7_Witness ==
    /\ pc = "selected"
    /\ messageCount >= MessagesPerTurn
    /\ agent_order # <<>>
    /\ TurnEntry(messageCount, agent_order) = S_designer
    /\ Len(ordered_agents) = 2
    /\ selected = ordered_agents[1]

(***************************************************************************)
(* C8.  Recovery suffix: the built schedule ends with 3 x num_debug_loops  *)
(* entries that read tester, debugger, coder repeatedly, so it has at      *)
(* least that many entries and is never empty.                             *)
(***************************************************************************)
C8_RecoverySuffix ==
    Built =>
        LET L == Len(agent_order)
            n == 3 * num_debug_loops
            cycle == <<S_tester, S_debugger, S_coder>>
        IN  /\ agent_order # <<>>
            /\ L >= n
            /\ L = PrimaryLen(tasks[1]) + n
            /\ \A i \in 1..n : agent_order[L - n + i] = cycle[((i - 1) % 3) + 1]

C8_Witness ==
    /\ pc = "chat"
    /\ Len(tasks[1].tasks) = 2
    /\ Lower(tasks[1].tasks[2].agent) = S_coder
    /\ Len(agent_order) = 12
    /\ SubSeq(agent_order, 4, 12) = debug_loop

(***************************************************************************)
(* C9.  Recovery-role presence: for every Task, 'debugger' occurs in the   *)
(* built schedule and the debugger agent is in the active agent list, so   *)
(* the selector gives every debugger turn to the debugger.                 *)
(***************************************************************************)
C9_DebuggerPresent ==
    Built =>
        /\ S_debugger \in Range(agent_order)
        /\ debugger \in Range(ordered_agents)
        /\ \A k \in 1..Len(agent_order) :
              agent_order[k] = S_debugger
                => custom_speaker_selection_func(MessagesPerTurn * (k - 1) + 1,
                                                 agent_order, ordered_agents) = debugger

C9_Witness ==
    /\ pc = "chat"
    /\ chatMode = "multi"
    /\ tasks[1].tasks # <<>>
    /\ \A i \in 1..Len(tasks[1].tasks) : Lower(tasks[1].tasks[i].agent) # S_debugger
    /\ ordered_agents[Len(ordered_agents)] = debugger
    /\ messageCount > MessagesPerTurn * PrimaryLen(tasks[1])
    /\ selected = debugger

(***************************************************************************)
(* C10.  Required root fields: when the root of a project_plan document    *)
(* lacks the name or the description element, or either has no text,      *)
(* parse_root_as_task returns None and parse_project_plan returns an empty *)
(* list; no Task with a missing or empty name or description is produced.  *)
(***************************************************************************)
C10_RootFieldsRequired ==
    pc # "start" =>
        /\ (/\ planFile.state = "ok"
            /\ planFile.root.tag = S_project_plan
            /\ ~(HasText(planFile.root.name) /\ HasText(planFile.root.description)))
              => /\ parse_root_as_task(planFile.root) = None
                 /\ tasks = <<>>
        /\ \A i \in 1..Len(tasks) :
              /\ tasks[i].name # <<>>
              /\ tasks[i].description # <<>>
              /\ tasks[i].name = planFile.root.name.text
              /\ tasks[i].description = planFile.root.description.text

C10_Witness ==
    /\ pc = "returned"
    /\ planFile.state = "ok"
    /\ planFile.root.tag = S_project_plan
    /\ planFile.root.name = Empty
    /\ HasText(planFile.root.description)
    /\ planFile.root.tasks.items # <<>>
    /\ tasks = <<>>

(***************************************************************************)
(* C11.  Malformed document: for a missing project_plan.xml, a file that   *)
(* is not parsable XML, and a document whose root element is not           *)
(* project_plan, parse_project_plan returns no Task, whatever lies below   *)
(* the root, and nothing is built from the document.                       *)
(***************************************************************************)
MalformedDocument(file) ==
    \/ file.state = "missing"
    \/ file.state = "unparsable"
    \/ file.root.tag # S_project_plan

C11_MalformedDocumentNoTask ==
    (pc # "start" /\ MalformedDocument(planFile))
        => /\ tasks = <<>>
           /\ agent_order = <<>>
           /\ ordered_agents = <<>>
           /\ pc \in {"parsed", "returned"}

C11_Witness ==
    /\ pc = "returned"
    /\ planFile.state = "ok"
    /\ planFile.root.tag = S_plan
    /\ HasText(planFile.root.name)
    /\ HasText(planFile.root.description)
    /\ planFile.root.tasks.items = <<[name |-> Txt(S_text), delegatedTo |-> Txt(S_coder)]>>
    /\ tasks = <<>>

(***************************************************************************)
(* C12.  Empty subtask list, as claimed: a plan with a valid root and no   *)
(* subtasks parses to a Task without subtasks, and the schedule built from *)
(* it holds only the recovery suffix, the 9 entries (tester, debugger,     *)
(* coder) x 3 and nothing before them.                                     *)
(***************************************************************************)
NoSubtaskElements(file) == ValidRoot(file) /\ file.root.tasks.items = <<>>

RecoverySuffix ==
    [i \in 1..(3 * num_debug_loops) |-> <<S_tester, S_debugger, S_coder>>[((i - 1) % 3) + 1]]

C12_OnlyRecoverySuffix ==
    (pc # "start" /\ NoSubtaskElements(planFile))
        => /\ Len(tasks) = 1
           /\ tasks[1].tasks = <<>>
           /\ pc \in {"chat", "returned"} => agent_order = RecoverySuffix

(***************************************************************************)
(* C12, amended.  A plan with a valid root and no subtasks parses to a     *)
(* Task without subtasks, and the schedule built from it is 'debugger'     *)
(* once, since no subtask names it, followed by the recovery suffix:       *)
(* 3 x num_debug_loops + 1 = 10 entries.                                   *)
(***************************************************************************)
C12_DebuggerThenRecoverySuffix ==
    (pc # "start" /\ NoSubtaskElements(planFile))
        => /\ Len(tasks) = 1
           /\ tasks[1].tasks = <<>>
           /\ pc \in {"chat", "returned"}
                => /\ agent_order = <<S_debugger>> \o RecoverySuffix
                   /\ Len(agent_order) = 3 * num_debug_loops + 1

C12_Witness ==
    /\ pc = "chat"
    /\ ValidRoot(planFile)
    /\ planFile.root.tasks.found
    /\ planFile.root.tasks.items = <<>>
    /\ tasks[1].tasks = <<>>
    /\ Len(agent_order) = 10
    /\ agent_order[1] = S_debugger

(***************************************************************************)
(* C13.  Parse errors reach the caller: every failure of                   *)
(* parse_project_plan (missing file, XML syntax error, wrong root, missing *)
(* required root field) gives the caller the empty list and every          *)
(* successful parse a list of one Task, so the caller can tell a failure   *)
(* from a parsed plan; on a failure main runs no conversation.             *)
(***************************************************************************)
ParseFailure(file) ==
    \/ MalformedDocument(file)
    \/ ~HasText(file.root.name)
    \/ ~HasText(file.root.description)

C14_EmptyScheduleYieldsNoAgent ==
    (pc = "selected" /\ agent_order = <<>> /\ messageCount >= 1)
        => selected \notin Range(ordered_agents)

(***************************************************************************)
(* C14, amended.  When a schedule with zero turns (or none) reaches the    *)
(* selector at a message count e >= 1, the selector recovers with the      *)
(* default rotation: it returns agents[(e div 3) mod len(agents)], an      *)
(* agent of the active list; it does not fail.                             *)
(***************************************************************************)
C14_EmptyScheduleDefaultRotation ==
    (pc = "selected" /\ agent_order = <<>> /\ messageCount >= 1)
        => /\ selected \in Range(ordered_agents)
           /\ \E i \in 1..Len(ordered_agents) :
                 /\ i - 1 = (messageCount \div 3) % Len(ordered_agents)
                 /\ selected = ordered_agents[i]

C14_Witness ==
    /\ pc = "selected"
    /\ agent_order = <<>>
    /\ messageCount = 4
    /\ Len(ordered_agents) = 2
    /\ selected = ordered_agents[2]

(***************************************************************************)
(* C15.  Build determinism: the schedule and the active agent list built   *)
(* for a Task are what building from that Task gives again, and they       *)
(* depend on nothing but the roles of its subtasks: a Task with the same   *)
(* subtask roles and another name, description, delegatedTo list and       *)
(* subtask descriptions gives the identical schedule and agent list.       *)
(***************************************************************************)
SameRolesOtherTask(task) ==
    [name |-> S_plan,
     description |-> S_designer,
     delegatedTo |-> <<S_tester, S_project_manager>>,
     tasks |-> [i \in 1..Len(task.tasks) |->
                   [description |-> S_plan, agent |-> task.tasks[i].agent]]]

C15_BuildDependsOnRolesOnly ==
    Built =>
        LET again == BuildAgentTeam(tasks[1])
            other == BuildAgentTeam(SameRolesOtherTask(tasks[1]))
        IN  /\ again.agent_order = agent_order
            /\ again.ordered_agents = ordered_agents
            /\ other.agent_order = agent_order
            /\ other.ordered_agents = ordered_agents
            /\ Len(other.agent_order) = Len(agent_order)

C15_Witness ==
    /\ pc = "chat"
    /\ messageCount > 1
    /\ tasks[1].delegatedTo # <<>>
    /\ Len(tasks[1].tasks) = 2
    /\ SameRolesOtherTask(tasks[1]) # tasks[1]
    /\ BuildAgentTeam(SameRolesOtherTask(tasks[1])).agent_order = agent_order

(***************************************************************************)
(* C16.  Selector purity: the agent the selector returns is a function of  *)
(* the message count, the schedule and the agent list alone, whatever the  *)
(* last speaker was; a call leaves the message count, the schedule and the *)
(* agent list unchanged; and while a conversation runs its schedule and    *)
(* its agent list never change and its messages are only appended.         *)
(***************************************************************************)
ExpectedSelection(n, order, agents) ==
    IF n = 0 THEN agents[1]
    ELSE IF order = <<>> THEN agents[((n \div 3) % Len(agents)) + 1]
    ELSE LET m == Matches(agents, TurnEntry(n, order))
         IN  IF m = {} THEN agents[1] ELSE agents[MinOf(m)]

C16_SelectorPure ==
    [][/\ (pc = "select" /\ pc' = "selected")
            => /\ selected' = ExpectedSelection(messageCount, agent_order, ordered_agents)
               /\ UNCHANGED <<messageCount, agent_order, ordered_agents>>
       /\ pc = "chat"
            => /\ UNCHANGED <<agent_order, ordered_agents, tasks>>
               /\ messageCount' \in {messageCount, messageCount + 1}
               /\ (chatMode = "multi" /\ messageCount' = messageCount + 1)
                    => selected' =
                         ExpectedSelection(messageCount, agent_order, ordered_agents)]_vars

C16_Witness ==
    /\ pc = "selected"
    /\ messageCount = 4
    /\ agent_order # <<>>
    /\ Len(ordered_agents) = 2
    /\ selected = coder
    /\ ordered_agents[1] = coder
    /\ Lower(TurnEntry(messageCount, agent_order)) = S_coder

(***************************************************************************)
(* C17.  Delegated roles: in the delegatedTo list of the root every agent  *)
(* entry without text is skipped without making the parse fail, and the    *)
(* entries with text are the Task's delegatedTo sequence, in document      *)
(* order, none dropped and none added.                                     *)
(***************************************************************************)
AgentHasText(agent) == agent.hasText /\ agent.text # <<>>

DelegatedTexts(file) ==
    LET kept == SelectSeq(file.root.delegatedTo.agents, AgentHasText)
    IN  [i \in 1..Len(kept) |-> kept[i].text]

C17_DelegatedRolesInOrder ==
    (pc # "start" /\ ValidRoot(planFile))
        => /\ Len(tasks) = 1
           /\ tasks[1].delegatedTo = DelegatedTexts(planFile)
           /\ \A i \in 1..Len(tasks[1].delegatedTo) : tasks[1].delegatedTo[i] # <<>>

C17_Witness ==
    /\ pc = "parsed"
    /\ ValidRoot(planFile)
    /\ Len(planFile.root.delegatedTo.agents) = 3
    /\ ~planFile.root.delegatedTo.agents[2].hasText
    /\ tasks[1].delegatedTo = <<S_tester, S_coder>>

(***************************************************************************)
(* C18.  One Task per plan, as claimed: parse_project_plan returns at most *)
(* one Task, exactly one when the document is a well-formed plan and none  *)
(* when it is not, and the Task carries all the subtasks of the plan.      *)
(***************************************************************************)
C18_OneTaskWithAllSubtasks ==
    pc # "start" =>
        /\ Len(tasks) <= 1
        /\ Len(tasks) = 1 <=> ~ParseFailure(planFile)
        /\ Len(tasks) = 1 => Len(tasks[1].tasks) = Len(planFile.root.tasks.items)

(***************************************************************************)
(* C18, amended.  parse_project_plan returns at most one Task: exactly one *)
(* when the file is parsable XML with root project_plan and a name and a   *)
(* description with text, and none otherwise; the Task carries all the     *)
(* well-formed subtasks of the plan, in document order, and leaves out     *)
(* every subtask that lacks its name or its delegatedTo.                   *)
(***************************************************************************)
C18_OneTaskWithWellFormedSubtasks ==
    pc # "start" =>
        /\ Len(tasks) <= 1
        /\ Len(tasks) = 1 <=> ~ParseFailure(planFile)
        /\ Len(tasks) = 1
             => /\ tasks[1].tasks = WellFormedSubtasks(planFile)
                /\ ~HasMalformedSubtask(planFile)
                     => Len(tasks[1].tasks) = Len(planFile.root.tasks.items)

C18_Witness ==
    /\ pc = "parsed"
    /\ Len(tasks) = 1
    /\ Len(planFile.root.tasks.items) = 2
    /\ MalformedSubtask(planFile.root.tasks.items[1])
    /\ tasks[1].tasks = <<[description |-> S_text, agent |-> S_debugger]>>

(***************************************************************************)
(* C19.  Wrap-around: for a non-empty schedule of length L and a message   *)
(* count e >= 1 the selector returns the same agent for e and for          *)
(* e + 3 x L; when e div 3 reaches L the selection restarts at             *)
(* schedule[0], and a conversation that goes on replays the schedule.      *)
(***************************************************************************)
C19_WrapAround ==
    /\ (pc = "selected" /\ agent_order # <<>> /\ messageCount >= 1)
         => /\ selected =
                 custom_speaker_selection_func(messageCount + 3 * Len(agent_order),
                                               agent_order, ordered_agents)
            /\ messageCount \div 3 = Len(agent_order)
                 => selected = ExpectedSelection(1, agent_order, ordered_agents)
    /\ (pc = "chat" /\ chatMode = "multi" /\ messageCount - 1 > 3 * Len(agent_order))
         => /\ selected =
                 custom_speaker_selection_func(messageCount - 1 - 3 * Len(agent_order),
                                               agent_order, ordered_agents)
            /\ (messageCount - 1) \div 3 = Len(agent_order)
                 => Lower(selected) = agent_order[1] \/ selected = ordered_agents[1]

C19_Witness ==
    /\ pc = "chat"
    /\ chatMode = "multi"
    /\ messageCount - 1 = 3 * Len(agent_order) + 1
    /\ agent_order[1] = S_project_manager
    /\ selected = project_manager

(***************************************************************************)
(* C20.  Three messages per logical turn, as claimed: in every             *)
(* conversation started by execute_agent_tasks the speaker at a message    *)
(* count is the agent resolved for the schedule entry of that count, entry *)
(* k for the counts 3k, 3k+1 and 3k+2; so the counts up to 2 select        *)
(* agents[0].                                                              *)
(***************************************************************************)
\* The agent a schedule entry resolves to: the first agent of that name, else
\* the first agent.
Resolve(entry) ==
    LET m == Matches(ordered_agents, entry)
    IN  IF m = {} THEN ordered_agents[1] ELSE ordered_agents[MinOf(m)]

SpeakerFollowsEntry ==
    /\ messageCount >= 2
         => selected = Resolve(TurnEntry(messageCount - 1, agent_order))
    /\ messageCount \in 2..3 => selected = ordered_agents[1]

C20_ThreeMessagesPerEntry == pc = "chat" => SpeakerFollowsEntry

(***************************************************************************)
(* C20, amended.  In every multi-agent conversation started by             *)
(* execute_agent_tasks (two or more agents in the active list) the speaker *)
(* at a message count is the agent resolved for the schedule entry of      *)
(* that count, entry k of each pass for the counts 3k, 3k+1 and 3k+2; the  *)
(* counts 0, 1 and 2 all select agents[0], which is the agent schedule[0]  *)
(* resolves to.  A single-agent chat does not consult the schedule.        *)
(***************************************************************************)
C20_ThreeMessagesPerEntryMultiAgent ==
    (pc = "chat" /\ chatMode = "multi")
        => /\ SpeakerFollowsEntry
           /\ Resolve(agent_order[1]) = ordered_agents[1]
           /\ messageCount = 1
                => \A k \in 0..(Len(agent_order) - 1) : \A j \in 0..2 :
                      custom_speaker_selection_func(3 * k + j, agent_order, ordered_agents)
                          = Resolve(agent_order[k + 1])

C20_Witness ==
    /\ pc = "chat"
    /\ chatMode = "multi"
    /\ messageCount = 3
    /\ selected = ordered_agents[1]
    /\ Matches(ordered_agents, agent_order[2]) = {2}
    /\ Matches(ordered_agents, agent_order[3]) = {3}

(***************************************************************************)
(* C21.  Active agent list: for every Task the agent list handed to the    *)
(* conversation is non-empty, holds no agent twice, holds only registry    *)
(* agents, lists the registry agents the subtasks name in order of first   *)
(* appearance, and has the debugger last when no subtask names it.         *)
(***************************************************************************)
RegistryAgents == {coder, project_manager, tester, debugger}

\* The position of the first subtask whose role names the agent; past the last
\* subtask when none does.
FirstAppearance(agent, task) ==
    LET roles == SubtaskRoles(task)
        at == {i \in 1..Len(roles) : roles[i] = Lower(agent)}
    IN  IF at = {} THEN Len(roles) + 1 ELSE MinOf(at)

NamedBySubtask(agent, task) == FirstAppearance(agent, task) <= Len(task.tasks)

C21_ActiveAgentList ==
    Built =>
        LET task == tasks[1]
            n == Len(ordered_agents)
        IN  /\ n >= 1
            /\ NoDuplicates(ordered_agents)
            /\ Range(ordered_agents) \subseteq RegistryAgents
            /\ Range(ordered_agents) =
                  {a \in RegistryAgents : NamedBySubtask(a, task)} \cup {debugger}
            /\ \A i, j \in 1..n :
                  i < j => FirstAppearance(ordered_agents[i], task)
                              < FirstAppearance(ordered_agents[j], task)
            /\ ~NamedBySubtask(debugger, task) => ordered_agents[n] = debugger

C21_Witness ==
    /\ pc = "chat"
    /\ Len(tasks[1].tasks) = 2
    /\ tasks[1].tasks[1].agent = S_Tester
    /\ tasks[1].tasks[2].agent = S_coder
    /\ ordered_agents = <<tester, coder, debugger>>

(***************************************************************************)
(* C22.  The turn selector never selects the user proxy: for every message *)
(* count, schedule (one that names the user proxy included) and non-empty  *)
(* agent list the returned agent is a member of the agents list, not the   *)
(* user proxy that heads the agents of the group chat.                     *)
(***************************************************************************)
C22_NeverUserProxy ==
    /\ pc = "selected"
         => /\ selected \in Range(ordered_agents)
            /\ selected # AllAgents(ordered_agents)[1]
    /\ (pc = "chat" /\ chatMode = "multi" /\ messageCount >= 2)
         => /\ selected \in Range(ordered_agents)
            /\ selected # AllAgents(ordered_agents)[1]

C22_Witness ==
    /\ pc = "selected"
    /\ agent_order = ProxyOrder
    /\ messageCount = 1
    /\ Len(ordered_agents) = 2
    /\ selected = ordered_agents[1]
    /\ selected # user_proxy

(***************************************************************************)
(* C23.  Schedule actually in force: the conversation is a multi-agent     *)
(* chat, whose speaker the schedule decides, exactly when the active agent *)
(* list has two or more agents; the list has exactly one agent exactly     *)
(* when the subtasks name no registry agent other than the debugger (or    *)
(* there is no subtask), and then the chat is a single-agent chat with     *)
(* automatic speaker selection between the user proxy and that agent: the  *)
(* built schedule, recovery cycle included, is not consulted.              *)
(***************************************************************************)
NamesOtherRegistryAgent(task) ==
    \E i \in 1..Len(task.tasks) :
        Lower(task.tasks[i].agent) \in RegistryKeys \ {S_debugger}

C23_ScheduleInForce ==
    Built =>
        /\ chatMode = "multi" <=> Len(ordered_agents) >= 2
        /\ chatMode = "single" <=> Len(ordered_agents) = 1
        /\ Len(ordered_agents) = 1 <=> ~NamesOtherRegistryAgent(tasks[1])
        /\ chatMode = "single"
             => /\ ordered_agents = <<debugger>>
                /\ Len(agent_order) >= 3 * num_debug_loops + 1
                /\ SubSeq(agent_order, Len(agent_order) - 3 * num_debug_loops + 1,
                          Len(agent_order)) = RecoverySuffix
                /\ messageCount >= 2 => selected \in {user_proxy, debugger}
        /\ (chatMode = "multi" /\ messageCount >= 2)
             => selected = Resolve(TurnEntry(messageCount - 1, agent_order))

C23_Witness ==
    /\ pc = "chat"
    /\ chatMode = "single"
    /\ Len(tasks[1].tasks) = 1
    /\ tasks[1].tasks[1].agent = S_designer
    /\ messageCount = 5
    /\ TurnEntry(messageCount - 1, agent_order) = S_debugger
    /\ selected = user_proxy

(***************************************************************************)
(* C24.  Case-insensitive roles: a Task whose subtask roles are written in *)
(* another letter case yields the identical schedule and the identical     *)
(* active agent list; every schedule entry is lower-case; a role in any    *)
(* casing counts as seen for the debugger-once rule and for the uniqueness *)
(* of the agent list; the selector matches a schedule entry against the    *)
(* agent names ignoring case.                                              *)
(***************************************************************************)
UpperChar(c) ==
    CASE c = "c" -> "C"
      [] c = "d" -> "D"
      [] c = "m" -> "M"
      [] c = "p" -> "P"
      [] c = "t" -> "T"
      [] c = "u" -> "U"
      [] OTHER -> c

Upper(s) == [i \in 1..Len(s) |-> UpperChar(s[i])]

HasUpperCase(s) == \E i \in 1..Len(s) : s[i] \in {"C", "D", "M", "P", "T", "U"}

\* The Task with the role of every subtask at an odd position in upper case.
OtherCasing(task) ==
    [task EXCEPT !.tasks =
        [i \in 1..Len(task.tasks) |->
            IF i % 2 = 1
            THEN [task.tasks[i] EXCEPT !.agent = Upper(@)]
            ELSE task.tasks[i]]]

UpperSchedule(order) == [k \in 1..Len(order) |-> Upper(order[k])]

SameIgnoringCase(s, t) == Upper(s) = Upper(t)

C24_CaseInsensitiveRoles ==
    /\ Built =>
          LET other == BuildAgentTeam(OtherCasing(tasks[1]))
          IN  /\ other.agent_order = agent_order
              /\ other.ordered_agents = ordered_agents
              /\ \A k \in 1..Len(agent_order) : ~HasUpperCase(agent_order[k])
              /\ Cardinality({k \in 1..Len(agent_order) - 3 * num_debug_loops :
                                 agent_order[k] = S_debugger}) >= 1
              /\ (\A i \in 1..Len(tasks[1].tasks) :
                      ~SameIgnoringCase(tasks[1].tasks[i].agent, S_debugger))
                   => Cardinality({k \in 1..Len(agent_order) - 3 * num_debug_loops :
                                      agent_order[k] = S_debugger}) = 1
              /\ NoDuplicates(ordered_agents)
    /\ pc = "selected" =>
          /\ selected = custom_speaker_selection_func(messageCount,
                            UpperSchedule(agent_order), ordered_agents)
          /\ (/\ messageCount >= 1
              /\ agent_order # <<>>
              /\ \E i \in 1..Len(ordered_agents) :
                    SameIgnoringCase(ordered_agents[i], TurnEntry(messageCount, agent_order)))
               => SameIgnoringCase(selected, TurnEntry(messageCount, agent_order))

C24_Witness ==
    /\ pc = "chat"
    /\ Len(tasks[1].tasks) = 2
    /\ tasks[1].tasks[1].agent = S_Tester
    /\ tasks[1].tasks[2].agent = S_debugger
    /\ OtherCasing(tasks[1]).tasks[1].agent # S_Tester
    /\ agent_order[1] = S_tester
    /\ ordered_agents = <<tester, debugger>>
    /\ Len(agent_order) = 2 + 3 * num_debug_loops
    /\ messageCount = 2
    /\ selected = tester

(***************************************************************************)
(* C25.  Order of the main flow: the plan is parsed only after the         *)
(* project-manager chat has returned; execute_agent_tasks is called only   *)
(* after parsing, once for the parsed Task; when parsing yields no Task    *)
(* (missing, empty or malformed project_plan.xml) execute_agent_tasks is   *)
(* never called and main returns the empty list.                           *)
(***************************************************************************)
\* execute_agent_tasks has been called: it built a schedule and started a chat.
ExecuteCalled == chatMode # "none"

MainFlowOrder ==
    /\ pc \in {"parsed", "chat", "returned"} => chat_result = "returned"
    /\ ExecuteCalled => /\ pc \in {"chat", "returned", "select", "selected"}
                        /\ pc \in {"chat", "returned"} => Len(tasks) = 1
    /\ (pc = "returned" /\ Len(tasks) = 1) => ExecuteCalled
    /\ (pc \in {"parsed", "returned"} /\ ParseFailure(planFile))
         => /\ tasks = <<>>
            /\ ~ExecuteCalled
            /\ agent_order = <<>>
            /\ messageCount = 0

MainFlowSteps ==
    /\ pc' = "parsed" /\ pc # "parsed"
         => /\ pc = "start"
            /\ chat_result = "returned"
            /\ tasks' = parse_project_plan(planFile)
    /\ (pc \in {"start", "parsed", "chat", "returned"} /\ ExecuteCalled' /\ ~ExecuteCalled)
         => /\ pc = "parsed"
            /\ Len(tasks) = 1
    /\ (pc \in {"chat", "returned"} /\ ExecuteCalled)
         => UNCHANGED <<tasks, agent_order, ordered_agents, chatMode>>
    /\ pc' = "returned" /\ pc # "returned"
         => /\ UNCHANGED tasks
            /\ tasks = <<>> <=> pc = "parsed"

C25_MainFlowOrder == [](MainFlowOrder) /\ [][MainFlowSteps]_vars

C25_Witness ==
    /\ pc = "returned"
    /\ chat_result = "returned"
    /\ planFile.state = "unparsable"
    /\ tasks = <<>>
    /\ ~ExecuteCalled

(***************************************************************************)
(* C26.  Plan durability: initialize_project_plan never changes the        *)
(* content of a project_plan.xml that exists; it creates an empty file     *)
(* only when none exists; it returns True exactly when the file existed    *)
(* and False when it created it; a further call leaves the file as it is;  *)
(* a plan written in one run is still there after the initialisation of    *)
(* the next run that does not ask for a reset.                             *)
(***************************************************************************)
InitializeStep == fs_pc = "init" /\ fs_pc' # "init"

PlanDurable ==
    InitializeStep =>
        LET was == project_dir[N_project_plan_xml]
            is == project_dir'[N_project_plan_xml]
            value == fs_call'.value
        IN  /\ \A n \in EntryNames \ {N_project_plan_xml} : project_dir'[n] = project_dir[n]
            /\ was.kind # "none" => is = was
            /\ is # was => was.kind = "none" /\ is = File(<<>>)
            /\ value = Some(TRUE) <=> was.kind # "none"
            /\ value = Some(FALSE) <=> (was.kind = "none" /\ is = File(<<>>))
            /\ value # None
                 => \A os_error \in BOOLEAN :
                       LET again == initialize_project_plan(project_dir', os_error)
                       IN  again.dir = project_dir' /\ again.value = Some(TRUE)
            /\ (~reset_db /\ last_plan.kind = "file") => is = last_plan

C26_PlanDurable == [][PlanDurable]_vars

C26_Witness ==
    /\ fs_pc = "work"
    /\ ~reset_db
    /\ fs_call.fn = "initialize_project_plan"
    /\ fs_call.value = Some(TRUE)
    /\ last_plan = File(S_plan)
    /\ fs_call.before[N_project_plan_xml] = File(S_plan)
    /\ project_dir[N_project_plan_xml] = File(S_plan)

(***************************************************************************)
(* C27.  Reset keeps hidden entries, as claimed: reset_project_files       *)
(* deletes every non-hidden file and every non-hidden directory at the top *)
(* level of the project directory and leaves every entry whose name starts *)
(* with a dot untouched; delete_non_hidden_file and                        *)
(* delete_non_hidden_directory return True exactly when they deleted       *)
(* something and never delete a hidden or non-existent path.               *)
(***************************************************************************)
AfterReset == fs_pc = "init" /\ fs_call.fn = "reset_project_files"

Listed(n) == fs_call.before[n].kind # "none"

HiddenUntouched ==
    /\ \A n \in EntryNames : Hidden(n) => project_dir[n] = fs_call.before[n]
    /\ \A n \in EntryNames : ~Listed(n) => project_dir[n] = Missing

C28_StdoutRestoredOutputOwn ==
    /\ ecall.pc = "idle" => sys_stdout = Console
    /\ exec_ret.call # 0 =>
          /\ exec_ret.stdout = exec_ret.original
          /\ exec_ret.original = Console
          /\ \A i \in 1..Len(exec_ret.text) :
                /\ exec_ret.text[i].by = exec_ret.call
                /\ ~exec_ret.text[i].late

(***************************************************************************)
(* C29.  test_file runs the file's code exactly when the file was read     *)
(* successfully: when reading fails it returns the read error and executes *)
(* nothing; for every file that is read, whatever its content, it executes *)
(* that content and returns the content and the execution result.          *)
(***************************************************************************)
C29_ExecutesExactlyWhenRead ==
    test_ret.fn = "test_file" =>
        /\ test_ret.executed # None <=> test_ret.file.state = "ok"
        /\ test_ret.file.state # "ok"
             => /\ test_ret.read_error
                /\ test_ret.content \in {NotFoundMessage, DeniedMessage}
                /\ test_ret.executed = None
        /\ test_ret.file.state = "ok"
             => /\ ~test_ret.read_error
                /\ test_ret.content = test_ret.file.text
                /\ test_ret.executed = Some(test_ret.file.text)
                /\ test_ret.execution.call # 0

====
